---- MODULE Spec2Model ----
(***************************************************************************)
(* The navigation state machine of the terminal file browser               *)
(* (internal/ui/model.go), with the snapshot builder it calls              *)
(* (internal/fileutils: ReadDirWithInfo, FilterFiles, SortFiles) and the   *)
(* preview dispatch (internal/ui/preview.go: UpdatePreview).               *)
(*                                                                         *)
(* Strings are sequences of bytes (Go's len, slicing and strings.Contains  *)
(* all work on bytes); a path is the sequence of its components; indices   *)
(* such as Selected and ListOffset are 0-based as in the Go code, so       *)
(* Files[Selected] of the code is Files[Selected + 1] here.                *)
(***************************************************************************)
EXTENDS Integers, Sequences, FiniteSets, TLC

VARIABLES
    m,      \* the *models.Model the AppModel embeds (one record, one field per struct field)
    cmd,    \* what the last Update returned: "nil", "quit", "exec", or "panic" (index out of range)
    last,   \* the last message Update handled: its key, the branch of the handler it
            \* took, and a note of what the model held before it
    errAge, \* number of messages handled since loadCurrentDir first recorded an error
    arg,    \* input of the pure function under check (specifications of pure functions only)
    res     \* its result

vars == <<m, cmd, last, errAge, arg, res>>

----------------------------------------------------------------------------
(* Bounds of the model *)

\* largest terminal height a WindowSizeMsg carries
MaxHeight == 6
\* longest SearchQuery typed
MaxQuery == 1
\* deepest CurrentDir a descend may reach
MaxDepth == 2
\* messages handled after a failed directory read (the error screen is then shown)
MaxErrSteps == 2
\* longest input list handed to SortFiles in SortSpec
MaxSortLen == 3
\* most entries of a directory whose preview is built in PreviewSpec
MaxEntries == 112
\* most null bytes, and most bytes that are neither null nor printable, in a
\* content handed to IsLikelyTextFile in ClassifySpec
MaxNulls == 7
MaxOther == 30
\* most lines of a text, and most bytes of a binary content, previewed in FileSpec
MaxLines == 502
MaxDump == 300
\* longest side, in pixels, of the small images sized in ImageSpec
MaxImageSide == 12

----------------------------------------------------------------------------
(* Helpers of model.go *)

min(a, b) == IF a < b THEN a ELSE b

max(a, b) == IF a > b THEN a ELSE b

----------------------------------------------------------------------------
(* Strings as byte sequences *)

\* strings.ToLower on one byte (ASCII letters; other bytes are kept)
LowerByte(b) == IF b >= 65 /\ b <= 90 THEN b + 32 ELSE b

ToLower(s) == [i \in 1..Len(s) |-> LowerByte(s[i])]

\* Go's s < t on strings: bytewise lexicographic order
RECURSIVE StrLess(_, _)
StrLess(s, t) ==
    IF Len(t) = 0 THEN FALSE
    ELSE IF Len(s) = 0 THEN TRUE
    ELSE IF s[1] # t[1] THEN s[1] < t[1]
    ELSE StrLess(Tail(s), Tail(t))

\* strings.Contains(s, sub)
Contains(s, sub) ==
    \E k \in 0..(Len(s) - Len(sub)) : SubSeq(s, k + 1, k + Len(sub)) = sub

\* strings.HasPrefix(s, ".")
HasDotPrefix(s) == Len(s) > 0 /\ s[1] = 46

----------------------------------------------------------------------------
(* Paths: filepath.Dir, filepath.Base, filepath.Join *)

RootDir == <<>>

Dir(p) == IF Len(p) = 0 THEN p ELSE SubSeq(p, 1, Len(p) - 1)

Base(p) == IF Len(p) = 0 THEN <<47>> ELSE p[Len(p)]

Join(p, name) == Append(p, name)

----------------------------------------------------------------------------
(* The filesystem the browser runs on: what os.ReadDir returns.            *)
(* os.ReadDir lists a directory sorted by filename (bytewise); a           *)
(* directory that is not in DOMAIN Tree cannot be read (permission         *)
(* denied, or no such directory) and ReadDir returns an error.             *)

DirEntry(name, isDir, size, modTime) ==
    [Name |-> name, IsDir |-> isDir, Size |-> size, ModTime |-> modTime]

nHid == <<46, 104>>                  \* ".h"
nB   == <<66>>                       \* "B"
nTxt == <<97, 46, 116, 120, 116>>    \* "a.txt"
nU   == <<117>>                      \* "u"   (a directory with search but no read permission)
nDc  == <<46, 99>>                   \* ".c"
nC   == <<67>>                       \* "C"
nD   == <<68>>                       \* "D"   (an empty directory)
nAb  == <<97, 98>>                   \* "ab"
nLb  == <<98>>                       \* "b"
nR   == <<114>>                      \* "r"   (a readable directory inside "u")

Tree ==
    (RootDir :> << DirEntry(nHid, TRUE, 64, 5), DirEntry(nB, TRUE, 64, 3),
                   DirEntry(nTxt, FALSE, 10, 4), DirEntry(nU, TRUE, 32, 1) >>)
    @@ (<<nHid>> :> << DirEntry(nLb, FALSE, 2, 1) >>)
    @@ (<<nB>> :> << DirEntry(nDc, FALSE, 5, 3), DirEntry(nC, FALSE, 7, 2),
                     DirEntry(nD, TRUE, 64, 6), DirEntry(nAb, FALSE, 7, 1),
                     DirEntry(nLb, FALSE, 1, 2) >>)
    @@ (<<nB, nD>> :> << >>)
    @@ (<<nU, nR>> :> << DirEntry(nLb, FALSE, 3, 7) >>)

\* every directory of the filesystem, readable or not: the working directories
\* the program may be started in
AllDirs == DOMAIN Tree \cup {<<nU>>}

\* os.UserHomeDir()
HomeDir == <<nB>>

\* os.ReadFile / os.Open succeed on the regular files of readable directories
IsFile(path) ==
    /\ Len(path) > 0
    /\ Dir(path) \in DOMAIN Tree
    /\ \E i \in 1..Len(Tree[Dir(path)]) :
          Tree[Dir(path)][i].Name = Base(path) /\ ~Tree[Dir(path)][i].IsDir

----------------------------------------------------------------------------
(* internal/fileutils: the snapshot builder *)

GetFileInfo(entry) ==
    [Name |-> entry.Name, IsDir |-> entry.IsDir, Size |-> entry.Size,
     ModTime |-> entry.ModTime, IsHidden |-> HasDotPrefix(entry.Name)]

ReadDirWithInfo(dirPath) ==
    IF dirPath \in DOMAIN Tree
    THEN [err |-> FALSE,
          files |-> [i \in 1..Len(Tree[dirPath]) |-> GetFileInfo(Tree[dirPath][i])]]
    ELSE [err |-> TRUE, files |-> << >>]

\* faulty variant of FilterKeeps: the name and the query are compared as they are
FilterKeepsExactCase(file, showHidden, searchQuery) ==
    /\ ~(~showHidden /\ file.IsHidden)
    /\ (searchQuery # << >> => Contains(file.Name, searchQuery))

FilterKeeps(file, showHidden, searchQuery) ==
    /\ ~(~showHidden /\ file.IsHidden)
    /\ (searchQuery # << >> => Contains(ToLower(file.Name), ToLower(searchQuery)))

FilterFiles(files, showHidden, searchQuery) ==
    IF showHidden /\ searchQuery = << >>
    THEN files
    ELSE LET Keep(f) == FilterKeeps(f, showHidden, searchQuery)
         IN  SelectSeq(files, Keep)

\* faulty variant of Less: the "directories first" test is dropped
LessNoPartition(a, b, sortBy, reverseSort) ==
    LET result == CASE sortBy = "size"     -> a.Size < b.Size
                    [] sortBy = "modified" -> a.ModTime < b.ModTime
                    [] OTHER               -> StrLess(ToLower(a.Name), ToLower(b.Name))
    IN  IF reverseSort THEN ~result ELSE result

\* the less function SortFiles hands to sort.Slice
Less(a, b, sortBy, reverseSort) ==
    IF a.IsDir # b.IsDir
    THEN a.IsDir
    ELSE LET result == CASE sortBy = "size"     -> a.Size < b.Size
                         [] sortBy = "modified" -> a.ModTime < b.ModTime
                         [] OTHER               -> StrLess(ToLower(a.Name), ToLower(b.Name))
         IN  IF reverseSort THEN ~result ELSE result

Swap(data, i, j) == [data EXCEPT ![i] = data[j], ![j] = data[i]]

\* sort.Slice on a slice of at most 12 elements is an insertion sort:
\*   for i := a + 1; i < b; i++ {
\*       for j := i; j > a && less(j, j-1); j-- { swap(j, j-1) } }
RECURSIVE SiftDown(_, _, _, _)
SiftDown(data, j, sortBy, reverseSort) ==
    IF j > 1 /\ Less(data[j], data[j - 1], sortBy, reverseSort)
    THEN SiftDown(Swap(data, j, j - 1), j - 1, sortBy, reverseSort)
    ELSE data

RECURSIVE InsertionSort(_, _, _, _)
InsertionSort(data, i, sortBy, reverseSort) ==
    IF i > Len(data)
    THEN data
    ELSE InsertionSort(SiftDown(data, i, sortBy, reverseSort), i + 1, sortBy, reverseSort)

SortFiles(files, sortBy, reverseSort) == InsertionSort(files, 2, sortBy, reverseSort)

\* the snapshot loadCurrentDir and updateDirectoryPreview build from a listing
Snapshot(files, s) ==
    SortFiles(FilterFiles(files, s.ShowHidden, s.SearchQuery), s.SortBy, s.ReverseSort)

----------------------------------------------------------------------------
(* File contents. A byte string is kept as its runs: the sequence of       *)
(* [byte, count] for each maximal stretch of one repeated byte, so that    *)
(* len, slicing and counting are those of the byte string itself.          *)

Run(b, n) == [byte |-> b, count |-> n]

\* the content made of the given runs, empty runs dropped
Bytes(runs) == SelectSeq(runs, LAMBDA r : r.count > 0)

\* len(content)
RECURSIVE CLen(_)
CLen(c) == IF c = << >> THEN 0 ELSE c[1].count + CLen(Tail(c))

\* content[:n]
RECURSIVE CTake(_, _)
CTake(c, n) ==
    IF n <= 0 \/ c = << >> THEN << >>
    ELSE IF c[1].count <= n THEN <<c[1]>> \o CTake(Tail(c), n - c[1].count)
    ELSE <<Run(c[1].byte, n)>>

\* number of bytes of content that are in the set bytes
RECURSIVE CCount(_, _)
CCount(c, bytes) ==
    IF c = << >> THEN 0
    ELSE (IF c[1].byte \in bytes THEN c[1].count ELSE 0) + CCount(Tail(c), bytes)

\* the bytes IsLikelyTextFile counts as printable: 32..126, tab, LF, CR
PrintableBytes == (32..126) \cup {9, 10, 13}

\* faulty variant of IsLikelyTextFile: both thresholds are met by equality
IsLikelyTextFileInclusive(content) ==
    IF CLen(content) = 0 THEN TRUE
    ELSE LET checkBytes == IF CLen(content) > 512 THEN CTake(content, 512) ELSE content
             nullCount == CCount(checkBytes, {0})
             printableCount == CCount(checkBytes, PrintableBytes)
         IN  IF 100 * nullCount >= CLen(checkBytes) THEN FALSE
             ELSE 100 * printableCount >= 95 * CLen(checkBytes)

\* the two float64 quotients are compared with 0.01 and 0.95; a quotient of two
\* integers below 2^53 is rounded to the double nearest to it, which lies on the same
\* side of the double nearest to 0.01 (or 0.95) as the exact quotient does, and is
\* that very double when the quotient is 1/100 (or 95/100) exactly
IsLikelyTextFile(content) ==
    IF CLen(content) = 0 THEN TRUE
    ELSE LET checkBytes == IF CLen(content) > 512 THEN CTake(content, 512) ELSE content
             nullCount == CCount(checkBytes, {0})
             printableCount == CCount(checkBytes, PrintableBytes)
         IN  IF 100 * nullCount > CLen(checkBytes) THEN FALSE
             ELSE 100 * printableCount > 95 * CLen(checkBytes)

\* strings.HasSuffix
HasSuffix(str, suffix) ==
    Len(str) >= Len(suffix) /\ SubSeq(str, Len(str) - Len(suffix) + 1, Len(str)) = suffix

\* the entries of fileutils.TextExtensions that names of this model can end in:
\* ".txt", ".c", ".log", ".md"
TextExtensions ==
    { <<46, 116, 120, 116>>, <<46, 99>>, <<46, 108, 111, 103>>, <<46, 109, 100>> }

\* ext == textExt implies that the name ends in textExt, so the test is HasSuffix
IsTextFileByExtension(fileName) ==
    \E textExt \in TextExtensions : HasSuffix(ToLower(fileName), ToLower(textExt))

----------------------------------------------------------------------------
(* internal/ui/preview.go: the preview of the selected entry.              *)
(* Preview is kept as the tagged content the string is built from.         *)

\* number of sub-entries a directory preview lists at most
PreviewCap == 100

\* the value of Preview when UpdatePreview indexes Files out of range (a Go panic)
Panicked == [kind |-> "panic"]

\* the text written after the entries when the listing is cut: "... and more files"
MoreMarker == <<"...", "and", "more", "files">>

\* faulty variant of DirectoryPreview: the sub-listing is filtered but not sorted
DirectoryPreviewUnsorted(s, rd, fullPath) ==
    IF rd.err
    THEN [s EXCEPT !.Preview = [kind |-> "error", path |-> fullPath]]
    ELSE LET filtered == FilterFiles(rd.files, s.ShowHidden, s.SearchQuery)
             shown == SubSeq(filtered, 1, min(Len(filtered), PreviewCap))
         IN  [s EXCEPT !.Preview =
                 [kind |-> "dir", path |-> fullPath,
                  names |-> [i \in 1..Len(shown) |-> shown[i].Name],
                  marker |-> IF Len(filtered) > PreviewCap THEN MoreMarker ELSE << >>]]

\* updateDirectoryPreview after its ReadDirWithInfo(fullPath), which returned rd:
\* Preview holds the names listed, in order, and the words of the closing marker
DirectoryPreview(s, rd, fullPath) ==
    IF rd.err
    THEN [s EXCEPT !.Preview = [kind |-> "error", path |-> fullPath]]
    ELSE LET filtered == Snapshot(rd.files, s)
             shown == SubSeq(filtered, 1, min(Len(filtered), PreviewCap))
         IN  [s EXCEPT !.Preview =
                 [kind |-> "dir", path |-> fullPath,
                  names |-> [i \in 1..Len(shown) |-> shown[i].Name],
                  marker |-> IF Len(filtered) > PreviewCap THEN MoreMarker ELSE << >>]]

updateDirectoryPreview(s, selectedFile, fullPath) ==
    DirectoryPreview(s, ReadDirWithInfo(fullPath), fullPath)

\* content[n:]
RECURSIVE CDrop(_, _)
CDrop(c, n) ==
    IF n <= 0 \/ c = << >> THEN c
    ELSE IF c[1].count <= n THEN CDrop(Tail(c), n - c[1].count)
    ELSE <<Run(c[1].byte, c[1].count - n)>> \o Tail(c)

\* strings.Join(strings.Split(content, "\n")[:k], "\n"): the content in front of
\* its k-th line feed
RECURSIVE FirstLines(_, _)
FirstLines(c, k) ==
    IF c = << >> THEN << >>
    ELSE IF c[1].byte # 10 THEN <<c[1]>> \o FirstLines(Tail(c), k)
    ELSE IF c[1].count >= k THEN Bytes(<<Run(10, k - 1)>>)
    ELSE <<c[1]>> \o FirstLines(Tail(c), k - c[1].count)

\* len(strings.Split(content, "\n"))
LineCount(content) == CCount(content, {10}) + 1

\* the text branch of renderBinaryPreview; truncated says that the text ends with
\* "\n\n... (file truncated for preview)"
TextBody(content) ==
    IF CLen(content) > 50000
    THEN IF LineCount(content) > 500
         THEN [form |-> "text", shown |-> FirstLines(content, 500), truncated |-> TRUE]
         ELSE [form |-> "text", shown |-> content, truncated |-> FALSE]
    ELSE [form |-> "text", shown |-> content, truncated |-> FALSE]

\* the right-hand column of a dump line: bytes 32..126 as they are, "." for the rest
Gutter(c) == [i \in 1..Len(c) |->
                 IF c[i].byte >= 32 /\ c[i].byte <= 126 THEN c[i] ELSE Run(46, c[i].count)]

\* faulty variant of HexBody: the dump is not capped at 256 bytes
HexBodyUncapped(content) ==
    LET hexBytes == content
        n == CLen(hexBytes)
    IN  [form |-> "hex",
         lines |-> [k \in 1..((n + 15) \div 16) |->
                       LET i == 16 * (k - 1)
                           end == min(i + 16, n)
                           row == CTake(CDrop(hexBytes, i), end - i)
                       IN  [offset |-> i, hex |-> row, pad |-> i + 16 - end,
                            ascii |-> Gutter(row)]],
         more |-> IF CLen(content) > 256 THEN <<CLen(content) - 256>> ELSE << >>]

\* the hex branch of renderBinaryPreview: one line for each i = 0, 16, 32, ... below
\* len(hexBytes), and the count printed by "(%d more bytes)" when there is one
HexBody(content) ==
    LET hexBytes == IF CLen(content) > 256 THEN CTake(content, 256) ELSE content
        n == CLen(hexBytes)
    IN  [form |-> "hex",
         lines |-> [k \in 1..((n + 15) \div 16) |->
                       LET i == 16 * (k - 1)
                           end == min(i + 16, n)
                           row == CTake(CDrop(hexBytes, i), end - i)
                       IN  [offset |-> i, hex |-> row, pad |-> i + 16 - end,
                            ascii |-> Gutter(row)]],
         more |-> IF CLen(content) > 256 THEN <<CLen(content) - 256>> ELSE << >>]

\* renderBinaryPreview after its os.ReadFile(fullPath), which returned rd
renderBinaryPreview(s, selectedFile, fullPath, rd) ==
    IF rd.err
    THEN [s EXCEPT !.Preview = [kind |-> "error", path |-> fullPath]]
    ELSE LET content == rd.content
             isText == IF IsTextFileByExtension(selectedFile.Name) THEN TRUE
                       ELSE IsLikelyTextFile(content)
         IN  [s EXCEPT !.Preview =
                 [kind |-> "file", path |-> fullPath,
                  header |-> [Name |-> selectedFile.Name, Size |-> selectedFile.Size,
                              ModTime |-> selectedFile.ModTime],
                  body |-> IF isText /\ CLen(content) > 0 THEN TextBody(content)
                           ELSE IF CLen(content) = 0 THEN [form |-> "empty"]
                           ELSE HexBody(content)]]

\* filepath.Ext: the name from its last "." on, or "" without one
RECURSIVE Ext(_)
Ext(name) ==
    IF name = << >> THEN << >>
    ELSE LET rest == Ext(Tail(name)) IN
         IF rest # << >> THEN rest
         ELSE IF name[1] = 46 THEN name ELSE << >>

\* ".jpg", ".jpeg", ".png", ".bmp", ".tif", ".tiff", ".webp"
ImageExtensions ==
    { <<46, 106, 112, 103>>, <<46, 106, 112, 101, 103>>, <<46, 112, 110, 103>>,
      <<46, 98, 109, 112>>, <<46, 116, 105, 102>>, <<46, 116, 105, 102, 102>>,
      <<46, 119, 101, 98, 112>> }

isImageFileByExtension(fileName) == ToLower(Ext(fileName)) \in ImageExtensions

\* int(x) for the float64 x computed as the quotient num / den of positive numbers:
\* its integer part; when the exact quotient is an integer the rounding of the
\* operands (0.55 is not a binary fraction) decides between it and the one below,
\* which is the choice low
IntOfQuotient(num, den, low) ==
    IF num % den = 0 /\ low THEN (num \div den) - 1 ELSE num \div den

\* the images and content areas <<imageWidth, imageHeight, contentWidth, contentHeight>>
\* of this model for which imageAspect equals paneAspect exactly while the float64
\* imageAspect, rounded twice, comes out above the float64 paneAspect (a 7 x 25 image
\* in the 28 x 55 content area of a 79 x 61 terminal); on the other exact ties of the
\* model the float64 values are equal or in the opposite order
TiesRoundedUp == { <<7, 25, 28, 55>> }

\* faulty variant of ImageSize: the image is always fitted to the width of the pane
ImageSizeFitWidth(s, imageWidth, imageHeight, low) ==
    LET parentWidth == max(s.Width \div 4, 15)
        currentWidth == max(s.Width \div 3, 20)
        paneWidth == max(s.Width - parentWidth - currentWidth - 4, 20)
        contentWidth == max(1, paneWidth - 2)
    IN  [FixedWidth |-> contentWidth,
         FixedHeight |-> max(1, IntOfQuotient(contentWidth * 11 * imageHeight,
                                              20 * imageWidth, low))]

\* the sizing of updateFilePreview for an image of imageWidth x imageHeight pixels.
\* imageAspect is (imageWidth / imageHeight) / 0.55 = 20 imageWidth / 11 imageHeight
ImageSize(s, imageWidth, imageHeight, low) ==
    LET parentWidth == max(s.Width \div 4, 15)
        currentWidth == max(s.Width \div 3, 20)
        paneWidth == max(s.Width - parentWidth - currentWidth - 4, 20)
        paneHeight == max(1, s.Height - 4)
        contentWidth == max(1, paneWidth - 2)
        contentHeight == max(1, paneHeight - 2)
        aspectNum == 20 * imageWidth
        aspectDen == 11 * imageHeight
        wider == \/ aspectNum * contentHeight > aspectDen * contentWidth
                 \/ <<imageWidth, imageHeight, contentWidth, contentHeight>> \in TiesRoundedUp
        finalWidth == IF wider THEN contentWidth
                      ELSE IntOfQuotient(contentHeight * aspectNum, aspectDen, low)
        finalHeight == IF wider THEN IntOfQuotient(contentWidth * aspectDen, aspectNum, low)
                       ELSE contentHeight
    IN  [FixedWidth |-> max(1, finalWidth), FixedHeight |-> max(1, finalHeight)]

\* faulty variant of FilePreview: a failed image.Decode is shown as an error
FilePreviewDecodeError(s, selectedFile, fullPath, opened, decoded, rd) ==
    IF isImageFileByExtension(selectedFile.Name)
    THEN IF opened.err \/ decoded.err
         THEN [s EXCEPT !.Preview = [kind |-> "error", path |-> fullPath]]
         ELSE [s EXCEPT !.Preview =
                  [kind |-> "image", path |-> fullPath,
                   size |-> ImageSize(s, decoded.width, decoded.height, decoded.low)]]
    ELSE renderBinaryPreview(s, selectedFile, fullPath, rd)

\* updateFilePreview after its system calls: opened is the outcome of os.Open,
\* decoded that of image.Decode (with the rounding of the sizing), rd that of
\* os.ReadFile
FilePreview(s, selectedFile, fullPath, opened, decoded, rd) ==
    IF isImageFileByExtension(selectedFile.Name)
    THEN IF opened.err
         THEN [s EXCEPT !.Preview = [kind |-> "error", path |-> fullPath]]
         ELSE IF decoded.err
         THEN renderBinaryPreview(s, selectedFile, fullPath, rd)
         ELSE [s EXCEPT !.Preview =
                  [kind |-> "image", path |-> fullPath,
                   size |-> ImageSize(s, decoded.width, decoded.height, decoded.low)]]
    ELSE renderBinaryPreview(s, selectedFile, fullPath, rd)

\* os.ReadFile: the regular files of this filesystem hold as many bytes "a" as their
\* size says, except "C", which holds null bytes
ReadFile(fullPath) ==
    IF IsFile(fullPath)
    THEN LET entries == Tree[Dir(fullPath)]
             i == CHOOSE k \in 1..Len(entries) : entries[k].Name = Base(fullPath)
         IN  [err |-> FALSE,
              content |-> Bytes(<<Run(IF Base(fullPath) = nC THEN 0 ELSE 97, entries[i].Size)>>)]
    ELSE [err |-> TRUE, content |-> << >>]

\* none of the files of this filesystem decodes as an image
updateFilePreview(s, selectedFile, fullPath) ==
    FilePreview(s, selectedFile, fullPath, [err |-> ~IsFile(fullPath)],
                [err |-> TRUE], ReadFile(fullPath))

UpdatePreview(s) ==
    IF Len(s.Files) = 0
    THEN [s EXCEPT !.Preview = [kind |-> "empty"]]
    ELSE IF s.Selected < 0 \/ s.Selected >= Len(s.Files)
    THEN [s EXCEPT !.Preview = Panicked]
    ELSE LET selectedFile == s.Files[s.Selected + 1]
             fullPath == Join(s.CurrentDir, selectedFile.Name)
         IN  IF selectedFile.IsDir
             THEN updateDirectoryPreview(s, selectedFile, fullPath)
             ELSE updateFilePreview(s, selectedFile, fullPath)

----------------------------------------------------------------------------
(* internal/ui/model.go *)

\* index (0-based) of the first entry of files named name, or -1
RECURSIVE IndexOfName(_, _, _)
IndexOfName(files, name, i) ==
    IF i > Len(files) THEN -1
    ELSE IF files[i].Name = name THEN i - 1
    ELSE IndexOfName(files, name, i + 1)

\* the parent-directory half of loadCurrentDir
loadParent(s) ==
    LET parentDir == Dir(s.CurrentDir)
        s1 == [s EXCEPT !.ParentDir = parentDir]
    IN  IF parentDir # s.CurrentDir
        THEN LET prd == ReadDirWithInfo(parentDir) IN
             IF ~prd.err
             THEN LET parentFiles == Snapshot(prd.files, s)
                      i == IndexOfName(parentFiles, Base(s.CurrentDir), 1)
                  IN  [s1 EXCEPT !.ParentFiles = parentFiles,
                                 !.ParentSelected = IF i >= 0 THEN i ELSE s.ParentSelected]
             ELSE s1
        ELSE [s1 EXCEPT !.ParentFiles = << >>]

loadCurrentDir(s) ==
    LET rd == ReadDirWithInfo(s.CurrentDir) IN
    IF rd.err
    THEN [s EXCEPT !.Err = TRUE]
    ELSE LET s2 == loadParent([s EXCEPT !.Files = Snapshot(rd.files, s)])
             s3 == IF s2.Selected >= Len(s2.Files)
                   THEN [s2 EXCEPT !.Selected = max(0, Len(s2.Files) - 1)]
                   ELSE s2
         IN  UpdatePreview(s3)

getVisibleHeight(s) == max(1, s.Height - 4)

\* the model NewAppModel builds for working directory dir, before its loadCurrentDir
NewModel(dir) ==
    [CurrentDir |-> dir, ParentDir |-> << << >> >>, Files |-> << >>, ParentFiles |-> << >>,
     Selected |-> 0, ParentSelected |-> 0, ListOffset |-> 0,
     Preview |-> [kind |-> "none"], PreviewOffset |-> 0, Width |-> 0, Height |-> 0,
     Err |-> FALSE, ShowHidden |-> FALSE, SortBy |-> "name", ReverseSort |-> FALSE,
     SearchMode |-> FALSE, SearchQuery |-> << >>]

NewAppModel(dir) == loadCurrentDir(NewModel(dir))

----------------------------------------------------------------------------
(* handleNormalMode: one operator per case of the switch, from the model   *)
(* before the key to the model after it                                    *)

KeyUp(s) ==
    IF s.Selected > 0
    THEN LET sel == s.Selected - 1 IN
         UpdatePreview([s EXCEPT !.Selected = sel,
                                 !.ListOffset = IF sel < s.ListOffset THEN sel ELSE s.ListOffset])
    ELSE s

KeyDown(s) ==
    IF s.Selected < Len(s.Files) - 1
    THEN LET sel == s.Selected + 1
             visibleHeight == getVisibleHeight(s)
         IN  UpdatePreview([s EXCEPT !.Selected = sel,
                                     !.ListOffset = IF sel >= s.ListOffset + visibleHeight
                                                    THEN sel - visibleHeight + 1
                                                    ELSE s.ListOffset])
    ELSE s

\* faulty variant of KeyRight: a selected file is entered like a directory
KeyRightAnyEntry(s) ==
    IF Len(s.Files) = 0 THEN s
    ELSE IF s.Selected < 0 \/ s.Selected >= Len(s.Files)
    THEN [s EXCEPT !.Preview = Panicked]
    ELSE loadCurrentDir([s EXCEPT !.CurrentDir = Join(s.CurrentDir, s.Files[s.Selected + 1].Name),
                                  !.Selected = 0, !.ListOffset = 0, !.PreviewOffset = 0])

\* faulty variant of KeyRight: the cursor is not reset on entering a directory
KeyRightKeepCursor(s) ==
    IF Len(s.Files) = 0 THEN s
    ELSE IF s.Selected < 0 \/ s.Selected >= Len(s.Files)
    THEN [s EXCEPT !.Preview = Panicked]
    ELSE IF s.Files[s.Selected + 1].IsDir
    THEN loadCurrentDir([s EXCEPT !.CurrentDir = Join(s.CurrentDir, s.Files[s.Selected + 1].Name),
                                  !.ListOffset = 0, !.PreviewOffset = 0])
    ELSE s

\* right / l / enter, had the descent dropped the committed search query
KeyRightClearsQuery(s) ==
    IF Len(s.Files) = 0 THEN s
    ELSE IF s.Selected < 0 \/ s.Selected >= Len(s.Files)
    THEN [s EXCEPT !.Preview = Panicked]
    ELSE IF s.Files[s.Selected + 1].IsDir
    THEN loadCurrentDir([s EXCEPT !.CurrentDir = Join(s.CurrentDir, s.Files[s.Selected + 1].Name),
                                  !.Selected = 0, !.ListOffset = 0, !.PreviewOffset = 0,
                                  !.SearchQuery = << >>])
    ELSE s

\* right / l / enter
KeyRight(s) ==
    IF Len(s.Files) = 0 THEN s
    ELSE IF s.Selected < 0 \/ s.Selected >= Len(s.Files)
    THEN [s EXCEPT !.Preview = Panicked]
    ELSE LET selectedFile == s.Files[s.Selected + 1]
             fullPath == Join(s.CurrentDir, selectedFile.Name)
         IN  IF selectedFile.IsDir
             THEN loadCurrentDir([s EXCEPT !.CurrentDir = fullPath, !.Selected = 0,
                                           !.ListOffset = 0, !.PreviewOffset = 0])
             ELSE s

\* left / h
KeyLeft(s) ==
    LET parent == Dir(s.CurrentDir) IN
    IF parent # s.CurrentDir
    THEN loadCurrentDir([s EXCEPT !.CurrentDir = parent,
                                  !.Selected = s.ParentSelected,
                                  !.ListOffset = max(0, s.ParentSelected - (getVisibleHeight(s) \div 2)),
                                  !.PreviewOffset = 0])
    ELSE s

\* o, had it opened a selected directory the way right / l / enter does
KeyOpenDescends(s) ==
    IF Len(s.Files) = 0 THEN s
    ELSE IF s.Selected < 0 \/ s.Selected >= Len(s.Files)
    THEN [s EXCEPT !.Preview = Panicked]
    ELSE IF s.Files[s.Selected + 1].IsDir THEN KeyRight(s)
    ELSE s

\* o: the model is not touched; OpensEditor says whether the editor is launched
KeyOpen(s) ==
    IF Len(s.Files) = 0 THEN s
    ELSE IF s.Selected < 0 \/ s.Selected >= Len(s.Files)
    THEN [s EXCEPT !.Preview = Panicked]
    ELSE s

OpensEditor(s) ==
    /\ Len(s.Files) > 0
    /\ s.Selected >= 0 /\ s.Selected < Len(s.Files)
    /\ ~s.Files[s.Selected + 1].IsDir

\* g
KeyTop(s) == UpdatePreview([s EXCEPT !.Selected = 0, !.ListOffset = 0])

\* G
KeyBottom(s) ==
    IF Len(s.Files) > 0
    THEN UpdatePreview([s EXCEPT !.Selected = Len(s.Files) - 1,
                                 !.ListOffset = max(0, Len(s.Files) - getVisibleHeight(s))])
    ELSE s

\* ~
\* ~ when os.UserHomeDir returns homeDir
KeyHomeTo(s, homeDir) ==
    loadCurrentDir([s EXCEPT !.CurrentDir = homeDir, !.Selected = 0,
                             !.ListOffset = 0, !.PreviewOffset = 0])

KeyHome(s) == KeyHomeTo(s, HomeDir)

\* /
KeySlash(s) == [s EXCEPT !.SearchMode = TRUE, !.SearchQuery = << >>]

\* faulty variant of KeyDot: hidden files are switched on, never off
KeyDotStuck(s) == loadCurrentDir([s EXCEPT !.ShowHidden = TRUE])

\* .
KeyDot(s) == loadCurrentDir([s EXCEPT !.ShowHidden = ~s.ShowHidden])

\* s / t / n: the three cases are the same code with key "size", "modified", "name"
KeySortKey(s, key) ==
    IF s.SortBy = key
    THEN loadCurrentDir([s EXCEPT !.ReverseSort = ~s.ReverseSort])
    ELSE loadCurrentDir([s EXCEPT !.SortBy = key, !.ReverseSort = FALSE])

\* r
KeyRefresh(s) == loadCurrentDir(s)

\* ctrl+u
KeyCtrlU(s) ==
    LET visibleHeight == getVisibleHeight(s) IN
    UpdatePreview([s EXCEPT !.Selected = max(0, s.Selected - (visibleHeight \div 2)),
                            !.ListOffset = max(0, s.ListOffset - (visibleHeight \div 2))])

\* ctrl+d
KeyCtrlD(s) ==
    LET visibleHeight == getVisibleHeight(s)
        sel == min(Len(s.Files) - 1, s.Selected + (visibleHeight \div 2))
    IN  UpdatePreview([s EXCEPT !.Selected = sel,
                                !.ListOffset = IF sel >= s.ListOffset + visibleHeight
                                               THEN sel - visibleHeight + 1
                                               ELSE s.ListOffset])

----------------------------------------------------------------------------
(* handleSearchMode *)

SearchEnter(s) == loadCurrentDir([s EXCEPT !.SearchMode = FALSE])

\* ctrl+c / esc, had it put the cursor back on the first entry
SearchEscResetsCursor(s) ==
    loadCurrentDir([s EXCEPT !.SearchMode = FALSE, !.SearchQuery = << >>, !.Selected = 0])

\* ctrl+c / esc
SearchEsc(s) == loadCurrentDir([s EXCEPT !.SearchMode = FALSE, !.SearchQuery = << >>])

SearchBackspace(s) ==
    IF Len(s.SearchQuery) > 0
    THEN loadCurrentDir([s EXCEPT !.SearchQuery = SubSeq(s.SearchQuery, 1, Len(s.SearchQuery) - 1)])
    ELSE s

\* any other key; str is msg.String() as bytes
SearchDefault(s, str) ==
    IF Len(str) = 1
    THEN loadCurrentDir([s EXCEPT !.SearchQuery = s.SearchQuery \o str])
    ELSE s

\* tea.WindowSizeMsg
Resized(s, width, height) == [s EXCEPT !.Width = width, !.Height = height]

----------------------------------------------------------------------------
(* internal/ui/view.go: which of its three frames RenderView draws *)

RenderView(s) ==
    IF s.Err THEN "error"
    ELSE IF s.Width = 0 \/ s.Height = 0 THEN "initializing"
    ELSE "panes"

----------------------------------------------------------------------------
(* Update: one action per message and per case of the two key switches *)

\* the program runs until Update returns tea.Quit or a handler panics
Running == cmd \notin {"quit", "panic"} /\ errAge < MaxErrSteps

\* Update handled message key in branch branch, left the model as s and returned c
Noted(key, branch, note, s, c) ==
    /\ m' = s
    /\ cmd' = IF s.Preview = Panicked THEN "panic" ELSE c
    /\ last' = [key |-> key, branch |-> branch, note |-> note]
    /\ errAge' = IF m.Err THEN errAge + 1 ELSE 0
    /\ UNCHANGED <<arg, res>>

Handled(key, branch, s, c) == Noted(key, branch, << >>, s, c)

Normal == Running /\ ~m.SearchMode

Searching == Running /\ m.SearchMode

\* the terminal heights a WindowSizeMsg carries: one giving a single visible row
\* (like the initial height 0) and the largest
Heights == {MaxHeight - 1, MaxHeight}

\* keys that reach the default case of handleSearchMode: msg.String() as bytes, and
\* the number of characters the key carries (0 for a named key)
TypedKeys ==
    { [String |-> <<98>>, Runes |-> 1],         \* "b"
      [String |-> <<122>>, Runes |-> 1],        \* "z", a letter no entry name contains
      [String |-> <<195, 169>>, Runes |-> 1],   \* "e" with acute accent, two bytes of UTF-8
      [String |-> <<116, 97, 98>>, Runes |-> 0] \* "tab"
    }

WindowSize ==
    /\ Running
    /\ \E h \in Heights : Handled("resize", "", Resized(m, 80, h), "nil")

OtherMsg ==
    /\ Running
    /\ Handled("msg", "", m, "nil")

Quit ==
    /\ Normal
    /\ Handled("q", "", m, "quit")

Up ==
    /\ Normal
    /\ Handled("up", IF m.Selected > 0 THEN "moved" ELSE "stay", KeyUp(m), "nil")

Down ==
    /\ Normal
    /\ Handled("down", IF m.Selected < Len(m.Files) - 1 THEN "moved" ELSE "stay",
               KeyDown(m), "nil")

\* the selected entry is a directory (the case in which right / l / enter descends)
OnDirectory(s) ==
    /\ Len(s.Files) > 0
    /\ s.Selected >= 0 /\ s.Selected < Len(s.Files)
    /\ s.Files[s.Selected + 1].IsDir

\* the path right / l / enter descends to
Target(s) == Join(s.CurrentDir, s.Files[s.Selected + 1].Name)

\* the note of a descend says whether it goes back into the directory the message
\* before it ascended from, and where the cursor was there
Right ==
    /\ Normal
    /\ OnDirectory(m) => Len(m.CurrentDir) < MaxDepth
    /\ Noted("right",
             IF Len(m.Files) = 0 THEN "empty"
             ELSE IF m.Selected < 0 \/ m.Selected >= Len(m.Files) THEN "panic"
             ELSE IF m.Files[m.Selected + 1].IsDir THEN "dir" ELSE "file",
             IF OnDirectory(m) /\ last.key = "left" /\ last.branch = "parent"
                /\ Target(m) = last.note.from
             THEN [back |-> TRUE, from |-> last.note.from, k |-> last.note.k]
             ELSE [back |-> FALSE],
             KeyRight(m), "nil")

\* the note of an ascend is the directory it left and the cursor index there
Left ==
    /\ Normal
    /\ Noted("left", IF Dir(m.CurrentDir) # m.CurrentDir THEN "parent" ELSE "root",
             [from |-> m.CurrentDir, k |-> m.Selected],
             KeyLeft(m), "nil")

Open ==
    /\ Normal
    /\ Handled("o", IF OpensEditor(m) THEN "file" ELSE "none", KeyOpen(m),
               IF OpensEditor(m) THEN "exec" ELSE "nil")

Top ==
    /\ Normal
    /\ Handled("g", "", KeyTop(m), "nil")

Bottom ==
    /\ Normal
    /\ Handled("G", "", KeyBottom(m), "nil")

Home ==
    /\ Normal
    /\ Handled("~", "", KeyHome(m), "nil")

Slash ==
    /\ Normal
    /\ Handled("/", "", KeySlash(m), "nil")

\* the note of a hidden toggle is the snapshot and the setting before it, and those
\* before the toggle preceding it when the message before was a toggle too
Dot ==
    /\ Normal
    /\ Noted(".", "",
             [files |-> m.Files, hidden |-> m.ShowHidden,
              prev |-> IF last.key = "."
                       THEN [twice |-> TRUE, files |-> last.note.files, hidden |-> last.note.hidden]
                       ELSE [twice |-> FALSE]],
             KeyDot(m), "nil")

SortKey ==
    /\ Normal
    /\ \E key \in {"size", "modified", "name"} :
          Handled(key, IF m.SortBy = key THEN "flip" ELSE "set", KeySortKey(m, key), "nil")

Refresh ==
    /\ Normal
    /\ Handled("r", "", KeyRefresh(m), "nil")

CtrlU ==
    /\ Normal
    /\ Handled("ctrl+u", "", KeyCtrlU(m), "nil")

CtrlD ==
    /\ Normal
    /\ Handled("ctrl+d", "", KeyCtrlD(m), "nil")

SearchConfirm ==
    /\ Searching
    /\ Handled("enter", "", SearchEnter(m), "nil")

SearchCancel ==
    /\ Searching
    /\ Handled("esc", "", SearchEsc(m), "nil")

SearchErase ==
    /\ Searching
    /\ Handled("backspace", IF Len(m.SearchQuery) > 0 THEN "cut" ELSE "empty",
               SearchBackspace(m), "nil")

SearchType ==
    /\ Searching
    /\ \E k \in TypedKeys :
          /\ Len(k.String) = 1 => Len(m.SearchQuery) < MaxQuery
          /\ m' = SearchDefault(m, k.String)
          /\ cmd' = IF m'.Preview = Panicked THEN "panic" ELSE "nil"
          /\ last' = [key |-> "type",
                      branch |-> IF Len(k.String) = 1 THEN "append"
                                 ELSE IF k.Runes = 1 THEN "dropped" ELSE "named",
                      note |-> k]
          /\ errAge' = IF m.Err THEN errAge + 1 ELSE 0
          /\ UNCHANGED <<arg, res>>

Init ==
    /\ \E dir \in AllDirs : m = NewAppModel(dir)
    /\ cmd = "nil"
    /\ last = [key |-> "init", branch |-> "", note |-> << >>]
    /\ errAge = 0
    /\ arg = << >>
    /\ res = << >>

Next ==
    \/ WindowSize \/ OtherMsg \/ Quit
    \/ Up \/ Down \/ Right \/ Left \/ Open \/ Top \/ Bottom \/ Home
    \/ Slash \/ Dot \/ SortKey \/ Refresh \/ CtrlU \/ CtrlD
    \/ SearchConfirm \/ SearchCancel \/ SearchErase \/ SearchType

Spec == Init /\ [][Next]_vars

----------------------------------------------------------------------------
(* SortFiles on its own: every input list of at most MaxSortLen entries,   *)
(* every sort key and both directions                                      *)

SortEntries ==
    { GetFileInfo(DirEntry(nB, TRUE, 64, 3)),      \* directory "B"
      GetFileInfo(DirEntry(nAb, TRUE, 32, 3)),     \* directory "ab", same time as "B"
      GetFileInfo(DirEntry(nLb, FALSE, 7, 1)),     \* file "b": the name of "B" in lower case
      GetFileInfo(DirEntry(nC, FALSE, 7, 2)),      \* file "C", same size as "b"
      GetFileInfo(DirEntry(nDc, FALSE, 64, 2)) }   \* file ".c", same time as "C"

SortInputs == UNION { [1..n -> SortEntries] : n \in 0..MaxSortLen }

SortInit ==
    /\ m = NewModel(RootDir)
    /\ cmd = "nil"
    /\ last = [key |-> "init", branch |-> "", note |-> << >>]
    /\ errAge = 0
    /\ arg \in [files : SortInputs, sortBy : {"name", "size", "modified"},
                 reverseSort : BOOLEAN]
    /\ res = [done |-> FALSE, files |-> << >>]

SortApply ==
    /\ ~res.done
    /\ res' = [done |-> TRUE, files |-> SortFiles(arg.files, arg.sortBy, arg.reverseSort)]
    /\ UNCHANGED <<m, cmd, last, errAge, arg>>

SortNext == SortApply

SortSpec == SortInit /\ [][SortNext]_vars

----------------------------------------------------------------------------
(* The snapshot builder on its own (FilterFiles, then SortFiles): the      *)
(* listings os.ReadDir can return for a directory holding any              *)
(* MaxSortLen or fewer of the entries of SnapEntries, every setting of     *)
(* showHidden, sortBy and reverseSort, and the queries of SnapQueries      *)

nHidden == <<46, 104, 105, 100, 100, 101, 110>>    \* ".hidden"

SnapEntries ==
    { GetFileInfo(DirEntry(nHidden, TRUE, 64, 5)),  \* directory ".hidden"
      GetFileInfo(DirEntry(nB, TRUE, 64, 3)),       \* directory "B"
      GetFileInfo(DirEntry(nTxt, FALSE, 10, 4)),    \* file "a.txt", 10 bytes
      GetFileInfo(DirEntry(nLb, FALSE, 7, 1)),      \* file "b"
      GetFileInfo(DirEntry(nDc, FALSE, 7, 2)) }     \* file ".c", same size as "b"

\* "", "b", "B", "."
SnapQueries == { << >>, <<98>>, <<66>>, <<46>> }

\* os.ReadDir returns the entries of a directory sorted by filename
Listing(entries) ==
    CHOOSE l \in [1..Cardinality(entries) -> entries] :
        \A i, j \in 1..Cardinality(entries) : i < j => StrLess(l[i].Name, l[j].Name)

SnapInputs == { Listing(e) : e \in { x \in SUBSET SnapEntries : Cardinality(x) <= MaxSortLen } }

SnapInit ==
    /\ m = NewModel(RootDir)
    /\ cmd = "nil"
    /\ last = [key |-> "init", branch |-> "", note |-> << >>]
    /\ errAge = 0
    /\ arg \in [files : SnapInputs, ShowHidden : BOOLEAN, SearchQuery : SnapQueries,
                 SortBy : {"name", "size", "modified"}, ReverseSort : BOOLEAN]
    /\ res = [done |-> FALSE, files |-> << >>]

SnapApply ==
    /\ ~res.done
    /\ res' = [done |-> TRUE, files |-> Snapshot(arg.files, arg)]
    /\ UNCHANGED <<m, cmd, last, errAge, arg>>

SnapNext == SnapApply

SnapSpec == SnapInit /\ [][SnapNext]_vars

----------------------------------------------------------------------------
(* The directory preview on its own: a selected directory holding n files, *)
(* n up to MaxEntries, the first HiddenEntries of them hidden, previewed   *)
(* with and without hidden entries under the initial sort order            *)

\* number of hidden files at the head of the listing
HiddenEntries == 11

\* what os.ReadDir returns for the directory holding n files
BigListing(n) ==
    [i \in 1..n |-> GetFileInfo(DirEntry(<<IF i <= HiddenEntries THEN 46 ELSE 102, i>>,
                                         FALSE, i, i))]

PreviewInit ==
    /\ m = NewModel(RootDir)
    /\ cmd = "nil"
    /\ last = [key |-> "init", branch |-> "", note |-> << >>]
    /\ errAge = 0
    /\ arg \in [n : 0..MaxEntries, ShowHidden : BOOLEAN]
    /\ res = [done |-> FALSE, Preview |-> [kind |-> "none"]]

PreviewApply ==
    /\ ~res.done
    /\ res' = [done |-> TRUE,
               Preview |-> DirectoryPreview([m EXCEPT !.ShowHidden = arg.ShowHidden],
                                            [err |-> FALSE, files |-> BigListing(arg.n)],
                                            <<nB>>).Preview]
    /\ UNCHANGED <<m, cmd, last, errAge, arg>>

PreviewNext == PreviewApply

PreviewSpec == PreviewInit /\ [][PreviewNext]_vars

----------------------------------------------------------------------------
(* IsLikelyTextFile on its own: contents of several lengths made of        *)
(* printable bytes, then bytes that are neither printable nor null, then   *)
(* null bytes, all within the first 512 bytes, and null bytes after them   *)

\* lengths of the contents classified
ClassifyLens == {20, 100, 200, 512, 600}

ClassifyContent(len, nulls, other) ==
    Bytes(<< Run(97, min(len, 512) - nulls - other), Run(200, other), Run(0, nulls),
             Run(0, len - min(len, 512)) >>)

ClassifyInit ==
    /\ m = NewModel(RootDir)
    /\ cmd = "nil"
    /\ last = [key |-> "init", branch |-> "", note |-> << >>]
    /\ errAge = 0
    /\ arg \in { a \in [len : ClassifyLens, nulls : 0..MaxNulls, other : 0..MaxOther] :
                    a.nulls + a.other <= min(a.len, 512) }
    /\ res = [done |-> FALSE, text |-> FALSE]

ClassifyApply ==
    /\ ~res.done
    /\ res' = [done |-> TRUE,
               text |-> IsLikelyTextFile(ClassifyContent(arg.len, arg.nulls, arg.other))]
    /\ UNCHANGED <<m, cmd, last, errAge, arg>>

ClassifyNext == ClassifyApply

ClassifySpec == ClassifyInit /\ [][ClassifyNext]_vars

----------------------------------------------------------------------------
(* updateFilePreview on its own: a file named with a text extension, an    *)
(* image extension or none, holding a text, a binary content or nothing,   *)
(* whose image.Decode fails and whose os.Open and os.ReadFile may fail     *)

nPng == <<120, 46, 80, 78, 71>>    \* "x.PNG"

\* "a.txt", "b", "x.PNG"
FileNames == { nTxt, nLb, nPng }

\* lengths of the first line of the texts previewed
FirstLineLens == {1, 49000, 49499, 49500, 50000, 50001}

\* a text of the given number of lines: a first line of "a" and empty lines after it
TextContent(firstLine, lines) == Bytes(<< Run(97, firstLine), Run(10, lines - 1) >>)

\* a binary content of n bytes: null bytes, then bytes "A"
BinaryContent(n) == Bytes(<< Run(0, n - (n \div 3)), Run(65, n \div 3) >>)

FileContents ==
    { TextContent(k, l) : k \in FirstLineLens, l \in {1, 2, 3} \cup ((MaxLines - 4)..MaxLines) }
        \cup { BinaryContent(n) : n \in 0..MaxDump }

FileInit ==
    /\ m = NewModel(RootDir)
    /\ cmd = "nil"
    /\ last = [key |-> "init", branch |-> "", note |-> << >>]
    /\ errAge = 0
    /\ arg \in [name : FileNames, content : FileContents,
                 openErr : BOOLEAN, readErr : BOOLEAN]
    /\ res = [done |-> FALSE, Preview |-> [kind |-> "none"], Err |-> FALSE]

FileApply ==
    /\ ~res.done
    /\ LET after == FilePreview(m,
                        GetFileInfo(DirEntry(arg.name, FALSE, CLen(arg.content), 1)),
                        <<arg.name>>, [err |-> arg.openErr], [err |-> TRUE],
                        [err |-> arg.readErr, content |-> arg.content])
       IN  res' = [done |-> TRUE, Preview |-> after.Preview, Err |-> after.Err]
    /\ UNCHANGED <<m, cmd, last, errAge, arg>>

FileNext == FileApply

FileSpec == FileInit /\ [][FileNext]_vars

----------------------------------------------------------------------------
(* The sizing of an image preview on its own: images of up to              *)
(* MaxImageSide pixels a side and of 400 and 800 pixels, in terminals of   *)
(* several sizes, with both outcomes of the float64 rounding               *)

ImageSides == (1..MaxImageSide) \cup {25, 400, 800}

\* terminal sizes: unknown (0), small, the one whose preview pane holds 40 x 20
\* (109 x 26) and 79 x 61
TermWidths == {0, 79, 109}

TermHeights == {0, 6, 26, 61}

ImageInit ==
    /\ m \in { [NewModel(RootDir) EXCEPT !.Width = w, !.Height = h] :
                  w \in TermWidths, h \in TermHeights }
    /\ cmd = "nil"
    /\ last = [key |-> "init", branch |-> "", note |-> << >>]
    /\ errAge = 0
    /\ arg \in [width : ImageSides, height : ImageSides, low : BOOLEAN]
    /\ res = [done |-> FALSE, Preview |-> [kind |-> "none"]]

ImageApply ==
    /\ ~res.done
    /\ res' = [done |-> TRUE,
               Preview |-> FilePreview(m, GetFileInfo(DirEntry(nPng, FALSE, 1, 1)), <<nPng>>,
                                       [err |-> FALSE],
                                       [err |-> FALSE, width |-> arg.width,
                                        height |-> arg.height, low |-> arg.low],
                                       [err |-> FALSE, content |-> << >>]).Preview]
    /\ UNCHANGED <<m, cmd, last, errAge, arg>>

ImageNext == ImageApply

ImageSpec == ImageInit /\ [][ImageNext]_vars

----------------------------------------------------------------------------
(* The panes of view.go: the rows of the two lists and the lines of the    *)
(* preview, each cut to the interior width of its pane                     *)

\* the Nerd Font icons of GetFileIcon, as the bytes of their UTF-8 encoding
IconFolder == <<239, 129, 187>>         \* U+F07B, default directory
IconMusic  == <<240, 159, 142, 181>>    \* U+1F3B5, directories "music" and "audio"
IconC      == <<238, 152, 158>>         \* U+E61E, extension ".c"
IconText   == <<239, 131, 182>>         \* U+F0F6, extension ".txt"
IconFile   == <<239, 128, 150>>         \* U+F016, default file

nMusic == <<109, 117, 115, 105, 99>>    \* "music"
nAudio == <<97, 117, 100, 105, 111>>    \* "audio"

\* of the special names and extensions of GetFileIcon, the ones entries of this
\* model can have; every other icon of the source is three or four bytes long too
GetFileIcon(file) ==
    LET name == ToLower(file.Name)
        ext  == ToLower(Ext(file.Name))
    IN  IF file.IsDir
        THEN IF name \in {nMusic, nAudio} THEN IconMusic ELSE IconFolder
        ELSE IF ext = <<46, 99>> THEN IconC
        ELSE IF ext = <<46, 116, 120, 116>> THEN IconText
        ELSE IconFile

Dots == <<46, 46, 46>>    \* "..."

\* the name of a list row as shown in a pane of interior width paneContentWidth;
\* len() counts bytes, of the icon and of the name alike
RowName(icon, name, paneContentWidth) ==
    LET maxNameWidth == paneContentWidth - Len(icon) - 1
    IN  IF Len(name) > maxNameWidth
        THEN IF maxNameWidth > 3
             THEN SubSeq(name, 1, maxNameWidth - 3) \o Dots
             ELSE SubSeq(name, 1, max(0, maxNameWidth))
        ELSE name

\* a row: the entry it shows, its icon, the name as shown and the highlight
Row(file, paneContentWidth, selected) ==
    [of |-> file.Name, icon |-> GetFileIcon(file),
     name |-> RowName(GetFileIcon(file), file.Name, paneContentWidth),
     selected |-> selected]

\* the rows of the parent pane: the first height - 2 entries of ParentFiles
renderParentPane(s, width, height) ==
    LET paneContentWidth == max(0, width - 2)
    IN  [i \in 1..min(Len(s.ParentFiles), max(0, height - 2)) |->
            Row(s.ParentFiles[i], paneContentWidth, i - 1 = s.ParentSelected)]

\* the rows of the current pane: height - 2 entries of Files from ListOffset on
renderCurrentPane(s, width, height) ==
    LET start == s.ListOffset
        end == min(start + height - 2, Len(s.Files))
        paneContentWidth == max(0, width - 2)
    IN  IF Len(s.Files) = 0 \/ end <= start THEN << >>
        ELSE IF start < 0 THEN <<Panicked>>
        ELSE [k \in 1..(end - start) |->
                 Row(s.Files[start + k], paneContentWidth, start + k - 1 = s.Selected)]

\* a line of the preview as shown in a pane of interior width paneContentWidth
LineShown(line, paneContentWidth) ==
    IF Len(line) > paneContentWidth
    THEN IF paneContentWidth > 3
         THEN SubSeq(line, 1, paneContentWidth - 3) \o Dots
         ELSE SubSeq(line, 1, paneContentWidth)
    ELSE line

\* the lines of the preview pane: lines is m.Preview split at its newlines, of
\* which height - 2 are shown from PreviewOffset on
renderPreviewPane(s, lines, width, height) ==
    LET start == s.PreviewOffset
        end == min(start + height - 2, Len(lines))
        paneContentWidth == max(0, width - 2)
    IN  IF end <= start THEN << >>
        ELSE IF start < 0 THEN <<Panicked>>
        ELSE [k \in 1..(end - start) |->
                 [of |-> lines[start + k],
                  shown |-> LineShown(lines[start + k], paneContentWidth)]]

\* the status bar: the search prompt, or the name of the selected entry and its
\* position (permissions left out); without a selected entry, the directory's name
getStatusBarContent(s) ==
    IF s.SearchMode
    THEN [IsSearchMode |-> TRUE, SearchQuery |-> s.SearchQuery]
    ELSE IF Len(s.Files) > 0 /\ s.Selected < Len(s.Files)
    THEN IF s.Selected < 0 THEN Panicked
         ELSE [IsSearchMode |-> FALSE, Directory |-> s.Files[s.Selected + 1].Name,
               FileCount |-> <<s.Selected + 1, Len(s.Files)>>]
    ELSE [IsSearchMode |-> FALSE, Directory |-> Base(s.CurrentDir), FileCount |-> << >>]

----------------------------------------------------------------------------
(* The three panes on their own: one entry in each list and one line of    *)
(* preview, in panes of every width from 2 (narrower, the rule under the   *)
(* pane's title cannot be drawn) to MaxPaneWidth, which takes in the 15    *)
(* and 20 columns that RenderView never goes below                         *)

MaxPaneWidth == 20

PaneWidths == 2..MaxPaneWidth

Rep(byte, n) == [i \in 1..n |-> byte]

\* "e" with acute accent n times over, two bytes of UTF-8 each
Accented(n) == [i \in 1..(2 * n) |-> IF i % 2 = 1 THEN 195 ELSE 169]

RowEntries ==
    { DirEntry(<<98>>, FALSE, 1, 1),                          \* "b"
      DirEntry(Rep(97, 19), FALSE, 1, 1),                     \* 19 times "a"
      DirEntry(Rep(100, 19), TRUE, 0, 1),                     \* 19 times "d", a directory
      DirEntry(nMusic, TRUE, 0, 1),                           \* "music", a directory
      DirEntry(<<97>> \o Accented(9), FALSE, 1, 1),           \* "a", then 9 accented "e"
      DirEntry(Rep(97, 12) \o <<46, 99>>, FALSE, 1, 1) }      \* 12 times "a", then ".c"

PreviewLines ==
    { <<120>>,                  \* "x"
      Rep(120, 24),             \* 24 times "x"
      Accented(12) }            \* 12 accented "e"

RenderInit ==
    /\ arg \in [file : RowEntries, line : PreviewLines, width : PaneWidths]
    /\ m = [NewModel(RootDir) EXCEPT !.Height = MaxHeight + 1,
                                     !.Files = <<GetFileInfo(arg.file)>>,
                                     !.ParentFiles = <<GetFileInfo(arg.file)>>]
    /\ cmd = "nil"
    /\ last = [key |-> "init", branch |-> "", note |-> << >>]
    /\ errAge = 0
    /\ res = [done |-> FALSE, parent |-> << >>, current |-> << >>, preview |-> << >>]

RenderApply ==
    /\ ~res.done
    /\ res' = [done |-> TRUE,
               parent |-> renderParentPane(m, arg.width, getVisibleHeight(m)),
               current |-> renderCurrentPane(m, arg.width, getVisibleHeight(m)),
               preview |-> renderPreviewPane(m, <<arg.line>>, arg.width,
                                             getVisibleHeight(m))]
    /\ UNCHANGED <<m, cmd, last, errAge, arg>>

RenderNext == RenderApply

RenderSpec == RenderInit /\ [][RenderNext]_vars

----------------------------------------------------------------------------
(* Navigation when the home directory is any directory of the tree, the    *)
(* one under the unreadable directory among them: the program starts in    *)
(* any directory and is steered with ~, down, right / l / enter, left / h  *)
(* and the hidden-files toggle                                             *)

ParentInit ==
    /\ \E dir \in AllDirs : m = NewAppModel(dir)
    /\ cmd = "nil"
    /\ last = [key |-> "init", branch |-> "", note |-> << >>]
    /\ errAge = 0
    /\ arg \in [home : DOMAIN Tree]
    /\ res = << >>

HomeTo ==
    /\ Normal
    /\ Handled("~", "", KeyHomeTo(m, arg.home), "nil")

ParentNext == HomeTo \/ Down \/ Right \/ Left \/ Dot

ParentSpec == ParentInit /\ [][ParentNext]_vars

----------------------------------------------------------------------------
(* The widths RenderView gives the three panes, on their own: terminals of *)
(* every width from 1 to MaxWidth                                          *)

MaxWidth == 120

parentWidth(W) == max(W \div 4, 15)

currentWidth(W) == max(W \div 3, 20)

\* the preview pane, had the 4 columns of the borders not been taken off
previewWidthNoBorders(W) == max(W - parentWidth(W) - currentWidth(W), 20)

previewWidth(W) == max(W - parentWidth(W) - currentWidth(W) - 4, 20)

LayoutInit ==
    /\ \E W \in 1..MaxWidth : m = [NewModel(RootDir) EXCEPT !.Width = W, !.Height = MaxHeight]
    /\ cmd = "nil"
    /\ last = [key |-> "init", branch |-> "", note |-> << >>]
    /\ errAge = 0
    /\ arg = << >>
    /\ res = [done |-> FALSE]

LayoutApply ==
    /\ ~res.done
    /\ res' = [done |-> TRUE,
               parentWidth |-> parentWidth(m.Width),
               currentWidth |-> currentWidth(m.Width),
               previewWidth |-> previewWidth(m.Width)]
    /\ UNCHANGED <<m, cmd, last, errAge, arg>>

LayoutNext == LayoutApply

LayoutSpec == LayoutInit /\ [][LayoutNext]_vars

----------------------------------------------------------------------------
(* Claims *)

\* C1 (as claimed): after any sequence of key and resize events, Selected is a
\* valid index of Files when Files is non-empty and is 0 when Files is empty
C1_SelectedInRange ==
    /\ Len(m.Files) > 0 => (0 <= m.Selected /\ m.Selected < Len(m.Files))
    /\ Len(m.Files) = 0 => m.Selected = 0

\* C2 (as claimed): with a non-empty snapshot the cursor is inside the visible
\* window, ListOffset <= Selected < ListOffset + max(1, Height - 4)
C2_SelectedInWindow ==
    Len(m.Files) > 0 =>
        /\ m.ListOffset <= m.Selected
        /\ m.Selected < m.ListOffset + max(1, m.Height - 4)

\* the sort key of an entry under sortBy is smaller than that of another
KeyBefore(a, b, sortBy) ==
    CASE sortBy = "size"     -> a.Size < b.Size
      [] sortBy = "modified" -> a.ModTime < b.ModTime
      [] OTHER               -> StrLess(ToLower(a.Name), ToLower(b.Name))

\* C3: for every input list, sort key and direction, SortFiles returns the same
\* entries with every directory before every file, and inside each of the two
\* partitions the keys ascend when reverseSort is false and descend when it is true
C3_DirectoriesFirst ==
    res.done =>
        LET out == res.files IN
        /\ Len(out) = Len(arg.files)
        /\ \A e \in SortEntries :
              Cardinality({i \in 1..Len(out) : out[i] = e})
                  = Cardinality({i \in 1..Len(arg.files) : arg.files[i] = e})
        /\ \A i, j \in 1..Len(out) : (i < j /\ out[j].IsDir) => out[i].IsDir
        /\ \A i, j \in 1..Len(out) :
              (i < j /\ out[i].IsDir = out[j].IsDir) =>
                  IF arg.reverseSort
                  THEN ~KeyBefore(out[i], out[j], arg.sortBy)
                  ELSE ~KeyBefore(out[j], out[i], arg.sortBy)

\* C3 witness: a reversed sort has moved a directory in front of a file that
\* preceded it in the input, and ordered two files by descending key
C3_Witness ==
    /\ res.done /\ arg.reverseSort
    /\ Len(arg.files) >= 3
    /\ ~arg.files[1].IsDir /\ arg.files[Len(arg.files)].IsDir
    /\ res.files[1].IsDir
    /\ \E i \in 1..(Len(res.files) - 1) :
          /\ ~res.files[i].IsDir /\ ~res.files[i + 1].IsDir
          /\ KeyBefore(res.files[i + 1], res.files[i], arg.sortBy)


\* the snapshot the builder owes for directory dir under the settings of s: the
\* filtered and sorted listing, and the empty snapshot when the listing fails
Built(dir, s) ==
    LET rd == ReadDirWithInfo(dir) IN
    IF rd.err THEN << >> ELSE Snapshot(rd.files, s)

\* C4 (as claimed): descend on a selected directory sets CurrentDir to the joined
\* path, resets Selected, ListOffset and PreviewOffset to 0, and leaves Files,
\* ParentFiles and Preview reloaded for the new directory
C4_DescendReloads ==
    [][ (last'.key = "right" /\ OnDirectory(m)) =>
            /\ m'.CurrentDir = Target(m)
            /\ m'.Selected = 0 /\ m'.ListOffset = 0 /\ m'.PreviewOffset = 0
            /\ m'.Files = Built(Target(m), m')
            /\ m'.ParentFiles = Built(m.CurrentDir, m')
            /\ m'.Preview = UpdatePreview(m').Preview
      ]_vars

C6_AscendLandsOnExited ==
    (last.key = "left" /\ last.branch = "parent") =>
        /\ m.CurrentDir = Dir(last.note.from)
        /\ m.Selected >= 0 /\ m.Selected < Len(m.Files)
        /\ m.Files[m.Selected + 1].Name = Base(last.note.from)

\* an ascend from directory D with the cursor at k has been followed at once by a
\* descend back into the entry of D
RoundTrip == last.key = "right" /\ last.branch = "dir" /\ last.note.back

\* C7 (as claimed): ascending and then descending back into the same entry
\* restores Selected to the index k it had before the ascend
C7_RoundTripRestoresCursor ==
    RoundTrip => (m.CurrentDir = last.note.from /\ m.Selected = last.note.k)

\* C7 (amended): ascending and then descending back into the same entry restores
\* CurrentDir and leaves Selected and ListOffset at 0, so that the index k is
\* restored only when it was 0
C7_RoundTripResetsCursor ==
    RoundTrip =>
        /\ m.CurrentDir = last.note.from
        /\ m.Selected = 0 /\ m.ListOffset = 0
        /\ (m.Selected = last.note.k) <=> (last.note.k = 0)

\* C7 witness: a round trip from a cursor index other than 0 has been completed
\* and the directory was loaded again
C7_Witness ==
    /\ RoundTrip /\ last.note.k > 0
    /\ ~m.Err /\ m.Files = Built(m.CurrentDir, m) /\ Len(m.Files) > last.note.k

\* C8: two hidden toggles in a row restore ShowHidden and the snapshot, entry for
\* entry, that were there before the first of them
C8_ToggleTwiceRestores ==
    (last.key = "." /\ last.note.prev.twice) =>
        /\ m.ShowHidden = last.note.prev.hidden
        /\ m.Files = last.note.prev.files

\* C8 witness: the second of two toggles has been handled in a directory with a
\* hidden entry, so that each of them changed the snapshot
C8_Witness ==
    /\ last.key = "." /\ last.note.prev.twice
    /\ m.Files # last.note.files
    /\ Len(m.Files) > 0 /\ ~m.Err

\* Selected clamped into the snapshot files by index
Clamped(selected, files) ==
    IF Len(files) = 0 THEN 0 ELSE max(0, min(selected, Len(files) - 1))

\* C9 (as claimed): a sort key selects its key, flipping ReverseSort when the key
\* was selected already and clearing it otherwise; the snapshot is rebuilt under
\* the new order and Selected is clamped into it by index
C9_SortKeys ==
    [][ (last'.key \in {"size", "modified", "name"}) =>
            /\ m'.SortBy = last'.key
            /\ m'.ReverseSort = (IF m.SortBy = last'.key THEN ~m.ReverseSort ELSE FALSE)
            /\ m'.Files = Built(m.CurrentDir, m')
            /\ m'.Selected = Clamped(m.Selected, m'.Files)
      ]_vars

\* C10 (as claimed): in search mode a single-character key appends its character
\* to SearchQuery and backspace removes the last one; the mode stays SearchEntry
\* and Files is the listing of CurrentDir filtered by the new query
C10_SearchAsYouType ==
    [][ /\ (last'.key = "type" /\ last'.note.Runes = 1) =>
              /\ m'.SearchQuery = m.SearchQuery \o last'.note.String
              /\ m'.SearchMode
              /\ m'.Files = Built(m.CurrentDir, m')
        /\ (last'.key = "backspace") =>
              /\ m'.SearchQuery = SubSeq(m.SearchQuery, 1, max(0, Len(m.SearchQuery) - 1))
              /\ m'.SearchMode
              /\ m'.Files = Built(m.CurrentDir, m')
      ]_vars

\* C11 (as claimed): from search mode, enter returns to Normal mode keeping
\* SearchQuery with Files the listing filtered by it; esc / ctrl+c returns to Normal
\* mode with SearchQuery empty and Files the listing without a search filter;
\* neither ends the program
C11_ConfirmAndCancel ==
    [][ /\ (last'.key = "enter") =>
              /\ ~m'.SearchMode /\ m'.SearchQuery = m.SearchQuery
              /\ m'.Files = Built(m.CurrentDir, m')
              /\ cmd' = "nil"
        /\ (last'.key = "esc") =>
              /\ ~m'.SearchMode /\ m'.SearchQuery = << >>
              /\ m'.Files = Built(m.CurrentDir, [m' EXCEPT !.SearchQuery = << >>])
              /\ cmd' = "nil"
      ]_vars

\* query is a substring, in any case, of no entry name of the readable directory dir
MatchesNothing(dir, query) ==
    /\ dir \in DOMAIN Tree
    /\ query # << >>
    /\ \A i \in 1..Len(Tree[dir]) : ~Contains(ToLower(Tree[dir][i].Name), ToLower(query))

\* C12 (as claimed): a search key that leaves a query contained in no entry name
\* gives an empty snapshot and no error: Err is not set by it, Selected is 0 and
\* Preview is the content shown for an empty snapshot
C12_NoMatchIsEmptyNotError ==
    [][ ( /\ last'.key \in {"type", "backspace", "enter"}
          /\ last'.branch \notin {"dropped", "named", "empty"}
          /\ MatchesNothing(m'.CurrentDir, m'.SearchQuery) ) =>
            /\ m'.Files = << >>
            /\ m'.Err = m.Err
            /\ m'.Selected = 0
            /\ m'.Preview = [kind |-> "empty"]
      ]_vars

\* the two bytes are the same letter in either case, or the same byte
SameFolded(a, b) ==
    \/ a = b
    \/ (a >= 65 /\ a <= 90 /\ b = a + 32)
    \/ (b >= 65 /\ b <= 90 /\ a = b + 32)

\* the entry is one the snapshot has to keep: not hidden unless showHidden, and
\* holding the query somewhere in its name, letters compared without case
Wanted(f, showHidden, query) ==
    /\ (showHidden \/ f.Name[1] # 46)
    /\ (query = << >> \/
        \E k \in 0..(Len(f.Name) - Len(query)) :
            \A j \in 1..Len(query) : SameFolded(f.Name[k + j], query[j]))

\* the names of a list of entries
Names(files) == [i \in 1..Len(files) |-> files[i].Name]

\* C13: the snapshot holds exactly the entries of the listing that are not hidden
\* (unless showHidden) and contain the query without regard to case, each once,
\* directories before files and each partition ordered by the sort key; the
\* listing {a.txt, B (dir), .hidden (dir)} by name gives [B, a.txt] without
\* hidden entries and [.hidden, B, a.txt] with them
C13_SnapshotBuilder ==
    res.done =>
        LET out == res.files IN
        /\ {out[i] : i \in 1..Len(out)}
               = {arg.files[i] : i \in {j \in 1..Len(arg.files) :
                                           Wanted(arg.files[j], arg.ShowHidden, arg.SearchQuery)}}
        /\ \A i, j \in 1..Len(out) : i # j => out[i] # out[j]
        /\ \A i, j \in 1..Len(out) : (i < j /\ out[j].IsDir) => out[i].IsDir
        /\ \A i, j \in 1..Len(out) :
              (i < j /\ out[i].IsDir = out[j].IsDir) =>
                  IF arg.ReverseSort
                  THEN ~KeyBefore(out[i], out[j], arg.SortBy)
                  ELSE ~KeyBefore(out[j], out[i], arg.SortBy)
        /\ ( /\ Names(arg.files) = <<nHidden, nB, nTxt>>
             /\ arg.SortBy = "name" /\ ~arg.ReverseSort /\ arg.SearchQuery = << >> ) =>
               Names(out) = IF arg.ShowHidden THEN <<nHidden, nB, nTxt>> ELSE <<nB, nTxt>>

\* C13 witness: the builder has run on a listing with a hidden entry and an entry
\* matching the query "B" only without regard to case, and has dropped the one and
\* kept the other
C13_Witness ==
    /\ res.done /\ ~arg.ShowHidden /\ arg.SearchQuery = <<66>>
    /\ \E i \in 1..Len(arg.files) : arg.files[i].Name = nDc
    /\ Names(res.files) = <<nB, nLb>>

\* C14 (as claimed): a movement key (up, down, ctrl+u, ctrl+d, g, G) leaves
\* ListOffset unchanged when the cursor it has moved is still inside the window
\* [ListOffset, ListOffset + visibleRows) the list had before the key
C14_ScrollFollowsCursor ==
    [][ ( /\ last'.key \in {"up", "down", "ctrl+u", "ctrl+d", "g", "G"}
          /\ m.ListOffset <= m'.Selected
          /\ m'.Selected < m.ListOffset + getVisibleHeight(m) ) =>
            m'.ListOffset = m.ListOffset
      ]_vars

\* C15 (as claimed): a resize sets Width and Height to the new dimensions, leaves
\* Selected alone, and leaves ListOffset such that Selected is below
\* ListOffset + max(1, Height - 4) for the new height
C15_ResizeReclamps ==
    [][ (last'.key = "resize") =>
            /\ m'.Width = 80 /\ m'.Height \in Heights
            /\ m'.Selected = m.Selected
            /\ (Len(m.Files) > 0 /\ m.Selected < m.ListOffset + max(1, m.Height - 4)) =>
                   m'.Selected < m'.ListOffset + max(1, m'.Height - 4)
      ]_vars

\* the last message made loadCurrentDir list CurrentDir, and the listing succeeded
LoadSucceeded ==
    /\ \/ last.key \in {"~", ".", "r", "size", "modified", "name", "enter", "esc"}
       \/ last.key = "left" /\ last.branch = "parent"
       \/ last.key = "right" /\ last.branch = "dir"
       \/ last.key = "type" /\ last.branch = "append"
       \/ last.key = "backspace" /\ last.branch = "cut"
    /\ m.CurrentDir \in DOMAIN Tree

\* C16 (as claimed): a failed listing does not persist: once a later load of the
\* current directory has succeeded, the frame drawn (for a terminal whose size is
\* known) is the three panes, not the error
C16_ErrorDoesNotPersist ==
    (LoadSucceeded /\ m.Width # 0 /\ m.Height # 0 /\ cmd # "panic") =>
        RenderView(m) = "panes"

\* the directory the message just handled made loadCurrentDir list, when that
\* message was a descend, an ascend or home
Destination(before, key, branch) ==
    IF key = "right" /\ branch = "dir" THEN {Target(before)}
    ELSE IF key = "left" /\ branch = "parent" THEN {Dir(before.CurrentDir)}
    ELSE IF key = "~" THEN {HomeDir}
    ELSE {}

\* C17 (as claimed): when the listing of the directory a descend, an ascend or
\* home goes to fails, CurrentDir, Files, Selected and ListOffset stay those of the
\* directory loaded last
C17_FailedLoadKeepsState ==
    [][ (\E d \in Destination(m, last'.key, last'.branch) : ReadDirWithInfo(d).err) =>
            /\ m'.CurrentDir = m.CurrentDir
            /\ m'.Files = m.Files
            /\ m'.Selected = m.Selected
            /\ m'.ListOffset = m.ListOffset
      ]_vars

\* C18 (as claimed): ParentDir equals CurrentDir only at the filesystem root, where
\* ParentFiles is empty
C18_ParentIsSelfOnlyAtRoot ==
    (m.ParentDir = m.CurrentDir) => (m.CurrentDir = RootDir /\ m.ParentFiles = << >>)

\* C18, second half: at the root an ascend changes no field of the model
C18_AscendAtRootNoOp ==
    [][ (last'.key = "left" /\ m.CurrentDir = RootDir) => (m' = m /\ cmd' = "nil") ]_vars

\* number of entries of the previewed directory left after the hidden filter
FilteredCount == IF arg.ShowHidden THEN arg.n ELSE max(0, arg.n - HiddenEntries)

\* C19 (as claimed): a directory preview lists at most 100 entries; with more than
\* 100 entries after filtering it ends with a marker that states the number of
\* entries left out, and with 100 or fewer it has no marker
C19_PreviewCapMarker ==
    res.done =>
        /\ Len(res.Preview.names) = min(FilteredCount, 100)
        /\ FilteredCount <= 100 => res.Preview.marker = << >>
        /\ FilteredCount > 100 =>
               /\ res.Preview.marker # << >>
               /\ \E i \in 1..Len(res.Preview.marker) :
                      res.Preview.marker[i] = ToString(FilteredCount - 100)

\* C19, without the count: the preview lists the first 100 entries at most and ends
\* with the marker exactly when entries were left out
C19_PreviewCapped ==
    res.done =>
        /\ Len(res.Preview.names) = min(FilteredCount, 100)
        /\ (res.Preview.marker # << >>) <=> (FilteredCount > 100)

\* in Normal mode the cursor is on a directory that can be listed
OnListableDirectory ==
    /\ ~m.SearchMode /\ cmd # "panic"
    /\ OnDirectory(m)
    /\ Target(m) \in DOMAIN Tree

TextPreviewed ==
    /\ res.done /\ res.Preview.kind = "file" /\ res.Preview.body.form = "text"

\* C21 (as claimed): a text of more than 50000 bytes, or of more than 500 lines, is
\* shown cut and marked as truncated; a text within both limits is shown whole; no
\* text is shown cut without the mark
C21_TruncatedOnEitherMeasure ==
    TextPreviewed =>
        LET body == res.Preview.body
            over == CLen(arg.content) > 50000 \/ LineCount(arg.content) > 500
        IN  /\ over => (body.truncated /\ body.shown # arg.content)
            /\ ~over => (~body.truncated /\ body.shown = arg.content)
            /\ body.shown # arg.content => body.truncated

\* C21, what holds: a text is cut, to its first 500 lines, exactly when it has more
\* than 50000 bytes and more than 500 lines, and is then marked as truncated
C21_TruncatedOnBothMeasures ==
    TextPreviewed =>
        LET body == res.Preview.body
            over == CLen(arg.content) > 50000 /\ LineCount(arg.content) > 500
        IN  /\ over => (body.truncated /\ LineCount(body.shown) = 500
                        /\ body.shown = CTake(arg.content, CLen(body.shown)))
            /\ ~over => (~body.truncated /\ body.shown = arg.content)

\* FileSpec has previewed a content of n > 0 bytes that is binary (more than 1% of
\* null bytes) under a name without text extension, and its bytes could be read
BinaryPreviewed ==
    /\ res.done /\ arg.name # nTxt /\ ~arg.readErr
    /\ (arg.name = nPng => ~arg.openErr)
    /\ CLen(arg.content) > 0
    /\ CCount(arg.content, {0}) > 0

\* C22: the preview of a binary file of n > 0 bytes is a hex dump of
\* ceil(min(n, 256) / 16) lines with offsets 0, 16, 32, ..., every line but the last
\* covering 16 bytes and the last the rest, together the first min(n, 256) bytes;
\* the "more bytes" count is there exactly when n > 256 and is n - 256
C22_HexDumpShape ==
    BinaryPreviewed =>
        LET n == CLen(arg.content)
            shownBytes == min(n, 256)
            body == res.Preview.body
        IN  /\ res.Preview.kind = "file" /\ body.form = "hex"
            /\ Len(body.lines) * 16 >= shownBytes /\ (Len(body.lines) - 1) * 16 < shownBytes
            /\ \A k \in 1..Len(body.lines) :
                  /\ body.lines[k].offset = 16 * (k - 1)
                  /\ CLen(body.lines[k].hex) = min(16, shownBytes - 16 * (k - 1))
                  /\ body.lines[k].hex
                         = CTake(CDrop(arg.content, 16 * (k - 1)), CLen(body.lines[k].hex))
            /\ (body.more # << >>) <=> (n > 256)
            /\ n > 256 => body.more = <<n - 256>>

\* C22 witness: a binary file of 300 bytes has been previewed as 16 dump lines and
\* the count of 44 more bytes
C22_Witness ==
    /\ BinaryPreviewed /\ CLen(arg.content) = 300
    /\ res.Preview.body.form = "hex"
    /\ Len(res.Preview.body.lines) = 16 /\ res.Preview.body.more = <<44>>

\* FileSpec has previewed a file with an image extension that could be opened and
\* that image.Decode rejected
DecodeFailed == res.done /\ arg.name = nPng /\ ~arg.openErr

ContentWidth == max(1, max(m.Width - max(m.Width \div 4, 15) - max(m.Width \div 3, 20) - 4, 20) - 2)

ContentHeight == max(1, max(1, m.Height - 4) - 2)

\* the image of ImageSpec, its pixels corrected by the cell ratio 0.55, is wider
\* than the content area: (width / height) / 0.55 > ContentWidth / ContentHeight
ImageIsWider == 20 * arg.width * ContentHeight > 11 * arg.height * ContentWidth

ImageIsNarrower == 20 * arg.width * ContentHeight < 11 * arg.height * ContentWidth

\* C23 (as claimed): the size chosen for the character art is at least 1 x 1 and
\* within the content area, its width the width of the area when the corrected
\* image ratio exceeds that of the area, and its height the height of the area
\* otherwise
C23_FitExactly ==
    res.done =>
        LET size == res.Preview.size IN
        /\ 1 <= size.FixedWidth /\ size.FixedWidth <= ContentWidth
        /\ 1 <= size.FixedHeight /\ size.FixedHeight <= ContentHeight
        /\ ImageIsWider => size.FixedWidth = ContentWidth
        /\ ~ImageIsWider => size.FixedHeight = ContentHeight

\* C23 (amended): the size chosen is at least 1 x 1 and within the content area;
\* its width is the width of the area when the corrected image ratio exceeds that
\* of the area, its height the height of the area when the ratio is below it, and
\* when the two ratios are equal one of the two is filled and the other is short
\* by one at most
C23_FitWithinOne ==
    res.done =>
        LET size == res.Preview.size IN
        /\ 1 <= size.FixedWidth /\ size.FixedWidth <= ContentWidth
        /\ 1 <= size.FixedHeight /\ size.FixedHeight <= ContentHeight
        /\ ImageIsWider => size.FixedWidth = ContentWidth
        /\ ImageIsNarrower => size.FixedHeight = ContentHeight
        /\ (~ImageIsWider /\ ~ImageIsNarrower) =>
              /\ size.FixedWidth = ContentWidth \/ size.FixedHeight = ContentHeight
              /\ size.FixedWidth >= ContentWidth - 1
              /\ size.FixedHeight >= ContentHeight - 1

\* C23 witness: an image of 800 x 400 pixels has been sized for the content area of
\* 40 x 20 and fills its width
C23_Witness ==
    /\ res.done /\ arg.width = 800 /\ arg.height = 400
    /\ ContentWidth = 40 /\ ContentHeight = 20
    /\ res.Preview.size.FixedWidth = 40 /\ res.Preview.size.FixedHeight \in {10, 11}

\* C25 (as claimed): in Normal mode, enter pressed while the selected entry is a
\* regular file launches the external editor on it. The key switch has one case
\* for "right", "l" and "enter", so the step of that case is the step of enter.
C25_EnterOpensFile ==
    [][ (last'.key = "right" /\ OpensEditor(m)) => cmd' = "exec" ]_vars

\* C26: the open-in-editor key changes no field of the model, whether or not it
\* launches the editor, and a message that is neither a key nor a resize event
\* (the result of the editor's exit among them) changes no field either
C26_EditorLeavesStateAlone ==
    [][ (last'.key \in {"o", "msg"}) => m' = m ]_vars

\* C26 witness: o has been handled with the cursor on a regular file in a listing
\* of several entries, and the editor was launched
C26_Witness ==
    /\ last.key = "o" /\ last.branch = "file" /\ cmd = "exec"
    /\ Len(m.Files) > 1 /\ m.Selected > 0
    /\ ~m.Files[m.Selected + 1].IsDir

\* bytes 128 to 191 continue a glyph of UTF-8; every other byte begins one
IsContinuation(b) == b >= 128 /\ b <= 191

\* the terminal columns of a string: one per glyph, two for a glyph of four bytes
\* (the emoji among the icons), none for the bytes that continue a glyph
Columns(str) ==
    LET RECURSIVE Sum(_)
        Sum(i) == IF i = 0 THEN 0
                  ELSE Sum(i - 1) + (IF IsContinuation(str[i]) THEN 0
                                     ELSE IF str[i] >= 240 THEN 2 ELSE 1)
    IN  Sum(Len(str))

\* the rows RenderApply has drawn in the parent pane and in the current pane
RowsShown == { res.parent[i] : i \in 1..Len(res.parent) }
             \cup { res.current[i] : i \in 1..Len(res.current) }

\* C27 (as claimed): in a pane of interior width N, a row whose icon, space and
\* name do not fit in N columns is shown with the icon whole and the name cut so
\* that the row fills exactly N columns: ending in "..." when more than 3 columns
\* remain for the name, a bare prefix when 1 to 3 remain, empty when none remains
C27_RowFillsPane ==
    res.done =>
        \A r \in RowsShown :
            LET N == max(0, arg.width - 2)
                remain == N - Columns(r.icon) - 1
            IN  (Columns(r.icon) + 1 + Columns(r.of) > N) =>
                    /\ r.icon = GetFileIcon(GetFileInfo(arg.file))
                    /\ (remain > 3) =>
                           /\ Columns(r.icon) + 1 + Columns(r.name) = N
                           /\ HasSuffix(r.name, Dots)
                    /\ (remain >= 1 /\ remain <= 3) =>
                           /\ Columns(r.icon) + 1 + Columns(r.name) = N
                           /\ r.name = SubSeq(r.of, 1, Len(r.name))
                    /\ (remain <= 0) => r.name = << >>

\* shown is the first k bytes of orig for a k at which a glyph ends, with or
\* without "..." after them
CutAtGlyph(orig, shown) ==
    \E k \in 0..Len(orig) :
        /\ k = Len(orig) \/ ~IsContinuation(orig[k + 1])
        /\ shown \in { SubSeq(orig, 1, k), SubSeq(orig, 1, k) \o Dots }

\* C28 (as claimed): every name shown in a list row and every line shown in the
\* preview is a prefix of the original made of whole glyphs, followed or not by
\* the ellipsis
C28_CutsBetweenGlyphs ==
    res.done =>
        /\ \A r \in RowsShown : CutAtGlyph(r.of, r.name)
        /\ \A i \in 1..Len(res.preview) : CutAtGlyph(res.preview[i].of, res.preview[i].shown)

\* C30 (as claimed): no sequence of key and resize events makes a handler read
\* Files[Selected] with Selected outside 0 .. len(Files) - 1, neither in
\* UpdatePreview (the panic that ends the program) nor in the status bar of the
\* frame drawn after the event
C30_NoIndexOutOfRange ==
    /\ cmd # "panic"
    /\ (cmd # "quit" /\ RenderView(m) = "panes") => getStatusBarContent(m) # Panicked

\* C31 (as claimed): in every state reached without a failed directory read, Files
\* is the snapshot built from CurrentDir under the current ShowHidden, SearchQuery,
\* SortBy and ReverseSort, also right after '/' has cleared the query
C31_FilesIsSnapshot ==
    (cmd # "panic" /\ ~m.Err) => m.Files = Built(m.CurrentDir, m)

\* C32 (as claimed): after every processed event the stored Preview is the one
\* UpdatePreview computes for the state as it stands: the preview of Files[Selected]
\* in CurrentDir, or the empty sentinel when Files is empty
C32_PreviewIsCurrent ==
    (cmd # "panic" /\ last.key # "init") => m.Preview = UpdatePreview(m).Preview

\* the index of CurrentDir's own entry in ParentFiles, -1 when it is not there
OwnIndex == IndexOfName(m.ParentFiles, Base(m.CurrentDir), 1)

\* C33 (as claimed): after every load ParentDir is the parent of CurrentDir and
\* ParentFiles is the filtered and sorted listing of ParentDir, or empty; when
\* ParentFiles holds the entry of CurrentDir, ParentSelected is its index
C33_ParentIsOfThisDirectory ==
    (cmd # "panic" /\ LoadSucceeded) =>
        /\ m.ParentDir = Dir(m.CurrentDir)
        /\ m.ParentFiles \in { Built(m.ParentDir, m), << >> }
        /\ (OwnIndex >= 0) => m.ParentSelected = OwnIndex

\* C34 (as claimed): the less function SortFiles has sorted a list with is a strict
\* ordering of the list's entries: of no two entries of the list that have
\* distinct names is each one less than the other, whatever the sort key and the
\* direction
C34_LessIsStrict ==
    res.done =>
        \A i, j \in 1..Len(arg.files) :
            (arg.files[i].Name # arg.files[j].Name) =>
                ~(Less(arg.files[i], arg.files[j], arg.sortBy, arg.reverseSort)
                  /\ Less(arg.files[j], arg.files[i], arg.sortBy, arg.reverseSort))

\* the rows of the current pane in the frame RenderView draws for the state
RowsDrawn == renderCurrentPane(m, currentWidth(m.Width), getVisibleHeight(m))

\* C35 (as claimed): in the frame drawn after a movement key, the selected entry
\* is one of the rows of the current pane: the rows the scroll logic keeps the
\* cursor within are the rows the renderer draws
C35_SelectedRowIsDrawn ==
    (/\ cmd # "panic"
     /\ last.key \in {"up", "down", "g", "G", "ctrl+u", "ctrl+d"}
     /\ RenderView(m) = "panes"
     /\ Len(m.Files) > 0
     /\ RowsDrawn # <<Panicked>>) =>
        \E i \in 1..Len(RowsDrawn) : RowsDrawn[i].selected

\* the columns the three panes and the 4 columns of their borders take together
ColumnsTaken == res.parentWidth + res.currentWidth + res.previewWidth + 4

\* C36 (as claimed): for every terminal width W >= 1 the three pane widths and
\* the 4 border columns together do not exceed W
C36_PanesFitAnyWidth ==
    (res.done /\ m.Width >= 1) => ColumnsTaken <= m.Width

\* C36 (amended): for every terminal width W >= 59 (the three least pane widths
\* and the borders: 15 + 20 + 20 + 4) the three pane widths and the 4 border
\* columns together do not exceed W
C36_PanesFitFromLeastWidth ==
    (res.done /\ m.Width >= 59) => ColumnsTaken <= m.Width

\* C36 witness: the widths computed for the narrowest terminal that holds the
\* three least pane widths, which fill it to the last column
C36_Witness ==
    /\ res.done /\ m.Width = 59
    /\ res.parentWidth = 15 /\ res.currentWidth = 20 /\ res.previewWidth = 20
    /\ ColumnsTaken = m.Width

\* C37: a key handled in search mode leaves CurrentDir, SortBy, ReverseSort and
\* ShowHidden as they were and returns neither the quit command nor the editor's;
\* a key of one byte is appended to the query and the mode stays, ctrl+c / esc
\* ends the search with the query cleared; and Selected changes only when it lies
\* beyond the reloaded snapshot, to that snapshot's last index (0 when empty)
C37_SearchModeKeysOnlySearch ==
    [][ (m.SearchMode /\ last'.key \in {"enter", "esc", "backspace", "type"}) =>
            /\ m'.CurrentDir = m.CurrentDir
            /\ m'.SortBy = m.SortBy
            /\ m'.ReverseSort = m.ReverseSort
            /\ m'.ShowHidden = m.ShowHidden
            /\ cmd' \notin {"quit", "exec"}
            /\ (last'.key = "type" /\ last'.branch = "append") =>
                   (m'.SearchMode /\ m'.SearchQuery = m.SearchQuery \o last'.note.String)
            /\ (last'.key = "esc") => (~m'.SearchMode /\ m'.SearchQuery = << >>)
            /\ \/ m'.Selected = m.Selected
               \/ /\ m.Selected >= Len(m'.Files)
                  /\ m'.Selected = max(0, Len(m'.Files) - 1)
      ]_vars

\* C37 witness: in a directory listed by size or time with the hidden entries
\* shown, a typed character has narrowed the listing to fewer entries than the
\* one above it and the cursor is on the last of them
C37_Witness ==
    /\ m.SearchMode /\ last.key = "type" /\ last.branch = "append"
    /\ m.SearchQuery = last.note.String
    /\ m.SortBy # "name" /\ m.ShowHidden
    /\ Len(m.CurrentDir) > 0
    /\ Len(m.Files) > 1 /\ m.Selected = Len(m.Files) - 1
    /\ Len(m.Files) < Len(Built(m.CurrentDir, [m EXCEPT !.SearchQuery = << >>]))

\* name passes the search filter of state s
MatchesQuery(name, s) ==
    s.SearchQuery # << >> => Contains(ToLower(name), ToLower(s.SearchQuery))

====
